---- MODULE Spec2Model ----
(***************************************************************************)
(* openapi-sdk: the generate command (src/src/commands/generate.ts).        *)
(*                                                                         *)
(* Strings whose characters matter (paths, base URLs) are sequences of      *)
(* one-character strings.  Syntax-tree nodes built with ts.factory are      *)
(* records; a field name always holds values of one type.                   *)
(***************************************************************************)
EXTENDS Integers, Sequences, FiniteSets, TLC

VARIABLES
    pc,              \* position of the run / of the function under study
    path,            \* makeTemplateExpressionFromPath, makeOperationFunction: config.path
    template,        \* node returned by makeTemplateExpressionFromPath
    inputType,       \* type literal of the callable unit's first parameter
    baseUrl,         \* options.baseUrl / config.baseUrl
    baseExpr,        \* second argument of the emitted new URL(...)
    defaultHeaders,  \* combineHeaders: parameter defaultHeaders
    headers,         \* combineHeaders: parameter headers
    combinedHeaders, \* combineHeaders: the returned Headers
    method,          \* callable unit: the HTTP method emitted into it (config.method)
    requestInit,     \* callable unit: the caller's requestInit argument
    fetchInit,       \* callable unit: the options object passed to fetch
    schema,          \* makeTypeFromSchema: its argument
    typeNode,        \* makeTypeFromSchema: the node it returns
    warnings,        \* makeTypeFromSchema: the schemas it has passed to console.warn
    callStack,       \* makeTypeFromSchema: the arguments of the calls still to be made
    responses,       \* makeOperationFunctionReturnType: its argument
    returnType,      \* makeOperationFunctionReturnType: the node it returns
    args,            \* execute: the command's arguments
    paths,           \* execute: inputDocument.paths after dereferencing (<<>> before)
    operationConfigs,\* execute: the configs collected so far
    statements,      \* execute: resultFile.statements
    dirCreated,      \* execute: mkdir(dirname(outputPath)) has run
    fileWritten,     \* execute: writeFile(outputPath, result) has run
    error,           \* execute: the error the run was rejected with, "" when none
    stderr,          \* cli: what console.error has printed, "" when nothing
    exitCode         \* cli: the status the process ended with, -1 while it runs

pathVars   == <<path, template, inputType>>
baseVars   == <<baseUrl, baseExpr>>
mergeVars  == <<defaultHeaders, headers, combinedHeaders>>
callVars   == <<method, requestInit, fetchInit>>
typeVars   == <<schema, typeNode, warnings, callStack>>
returnVars == <<responses, returnType>>
execVars   == <<args, paths, operationConfigs, statements, dirCreated, fileWritten, error,
                 stderr, exitCode>>
vars == <<pc, pathVars, baseVars, mergeVars, callVars, typeVars, returnVars, execVars>>

\* A value that is not there (JavaScript undefined).
Undefined == [kind |-> "undefined"]

\* The parts of the state a function under study does not touch.
PathIdle   == path = <<>> /\ template = Undefined /\ inputType = Undefined
BaseIdle   == baseUrl = [given |-> FALSE, str |-> <<>>] /\ baseExpr = Undefined
MergeIdle  == defaultHeaders = Undefined /\ headers = Undefined /\ combinedHeaders = Undefined
CallIdle   == method = "" /\ requestInit = Undefined /\ fetchInit = Undefined
TypeIdle   == schema = Undefined /\ typeNode = Undefined /\ warnings = <<>> /\ callStack = <<>>
ReturnIdle == responses = <<>> /\ returnType = Undefined
ExecIdle   ==
    /\ args = <<>> /\ paths = <<>> /\ operationConfigs = <<>> /\ statements = <<>>
    /\ dirCreated = FALSE /\ fileWritten = FALSE /\ error = ""
    /\ stderr = "" /\ exitCode = -1

(***************************************************************************)
(* Bounds                                                                  *)
(***************************************************************************)
MaxPathLen == 6

RECURSIVE SeqsUpTo(_, _)
SeqsUpTo(S, n) ==
    IF n = 0 THEN {<<>>}
    ELSE LET shorter == SeqsUpTo(S, n - 1)
         IN  shorter \cup {Append(s, c) : s \in {t \in shorter : Len(t) = n - 1}, c \in S}

RECURSIVE Flatten(_)
Flatten(ss) == IF ss = <<>> THEN <<>> ELSE Head(ss) \o Flatten(Tail(ss))

(***************************************************************************)
(* Path Template Builder                                                   *)
(***************************************************************************)
PathChars == {"{", "}", "a", "b", "/"}
Paths == SeqsUpTo(PathChars, MaxPathLen)

\* Index of the first "}" after position i, 0 when there is none.
NextClose(p, i) ==
    LET js == {j \in (i + 1)..Len(p) : p[j] = "}"}
    IN  IF js = {} THEN 0 ELSE CHOOSE j \in js : \A k \in js : j <= k

\* /\{([^}]+)\}/ matches at i: "{", one or more characters other than "}", "}".
MatchAt(p, i) == p[i] = "{" /\ NextClose(p, i) > i + 1

\* Start of the leftmost match at or after position from (regex lastIndex), 0 when none.
FirstMatch(p, from) ==
    LET is == {i \in from..Len(p) : MatchAt(p, i)}
    IN  IF is = {} THEN 0 ELSE CHOOSE i \in is : \A k \in is : i <= k

RECURSIVE ExecAll(_, _)
ExecAll(p, from) ==
    LET i == FirstMatch(p, from)
    IN  IF i = 0 THEN <<>>
        ELSE <<SubSeq(p, i + 1, NextClose(p, i) - 1)>> \o ExecAll(p, NextClose(p, i) + 1)

\* A slip: match[0] (the whole match, braces included) pushed instead of match[1].
RECURSIVE ExecAllWhole(_, _)
ExecAllWhole(p, from) ==
    LET i == FirstMatch(p, from)
    IN  IF i = 0 THEN <<>>
        ELSE <<SubSeq(p, i, NextClose(p, i))>> \o ExecAllWhole(p, NextClose(p, i) + 1)

extractParamsWholeMatch(p) == ExecAllWhole(p, 1)

\* extractParams(path): the captured group of every match, in order.
extractParams(p) == ExecAll(p, 1)

\* path.split(/\{[^}]+\}/) from position from: the text between the matches,
\* empty pieces kept.
RECURSIVE SplitFrom(_, _)
SplitFrom(p, from) ==
    LET i == FirstMatch(p, from)
    IN  IF i = 0 THEN <<SubSeq(p, from, Len(p))>>
        ELSE <<SubSeq(p, from, i - 1)>> \o SplitFrom(p, NextClose(p, i) + 1)

pathSegmentsOf(p) == SplitFrom(p, 1)

\* makeTemplateExpressionFromPath(path)
makeTemplateExpressionFromPath(p) ==
    LET params       == extractParams(p)
        pathSegments == pathSegmentsOf(p)
    IN  IF Len(params) = 0
        THEN [kind |-> "StringLiteral", text |-> p]
        ELSE [kind  |-> "TemplateExpression",
              head  |-> pathSegments[1],
              spans |-> [index \in 1..Len(params) |->
                            [object  |-> "params",
                             name    |-> params[index],
                             literal |-> pathSegments[index + 1],
                             isLast  |-> index = Len(params)]]]

\* A slip: only the first extracted name becomes a key of params.
makeFirstParameterTypeFirstKey(params) ==
    IF Len(params) # 0
    THEN [kind |-> "TypeLiteral", search |-> "optional string", hasParams |-> TRUE,
          paramsOptional |-> FALSE,
          paramKeys |-> <<params[1]>>, paramValue |-> "string"]
    ELSE [kind |-> "TypeLiteral", search |-> "optional string", hasParams |-> FALSE,
          paramsOptional |-> FALSE, paramKeys |-> <<>>, paramValue |-> "string"]

\* makeOperationFunction: the type of the first parameter.
\* Record<'p1' | 'p2' | ..., string> is recorded by its union of literal keys.
makeFirstParameterType(params) ==
    IF Len(params) # 0
    THEN [kind |-> "TypeLiteral", search |-> "optional string", hasParams |-> TRUE,
          paramsOptional |-> FALSE,
          paramKeys |-> [n \in 1..Len(params) |-> params[n]], paramValue |-> "string"]
    ELSE [kind |-> "TypeLiteral", search |-> "optional string", hasParams |-> FALSE,
          paramsOptional |-> FALSE, paramKeys |-> <<>>, paramValue |-> "string"]

InitPath ==
    /\ pc = "path"
    /\ path \in Paths
    /\ template = Undefined /\ inputType = Undefined
    /\ BaseIdle /\ MergeIdle /\ CallIdle /\ TypeIdle /\ ReturnIdle /\ ExecIdle

\* makeOperationFunction(config), as far as config.path decides it.
BuildPath ==
    /\ pc = "path"
    /\ template' = makeTemplateExpressionFromPath(path)
    /\ inputType' = makeFirstParameterType(extractParams(path))
    /\ pc' = "pathBuilt"
    /\ UNCHANGED <<path, baseVars, mergeVars, callVars, typeVars, returnVars, execVars>>

NextPath == BuildPath
SpecPath == InitPath /\ [][NextPath]_vars

\* What the emitted template reads back as.
TemplateNames(t) ==
    IF t.kind = "StringLiteral" THEN <<>> ELSE [n \in 1..Len(t.spans) |-> t.spans[n].name]
TemplateSegments(t) ==
    IF t.kind = "StringLiteral" THEN <<t.text>>
    ELSE <<t.head>> \o [n \in 1..Len(t.spans) |-> t.spans[n].literal]

Reassemble(segments, names) ==
    segments[1] \o Flatten([n \in 1..Len(names) |-> <<"{">> \o names[n] \o <<"}">> \o segments[n + 1]])

HasPlaceholder(s) == \E i \in 1..Len(s) : MatchAt(s, i)

\* C1: a path with N placeholders gives N names in left-to-right order and N+1
\* literal segments (empty ones kept); segments interleaved with {name} give back
\* the path; no placeholder is left inside a segment; N = 0 gives the string literal.
C1_PathRoundTrip ==
    pc = "pathBuilt" =>
        LET names    == TemplateNames(template)
            segments == TemplateSegments(template)
        IN  /\ Len(segments) = Len(names) + 1
            /\ Reassemble(segments, names) = path
            /\ \A n \in 1..Len(names) :
                   names[n] # <<>> /\ \A k \in 1..Len(names[n]) : names[n][k] # "}"
            /\ \A n \in 1..Len(segments) : ~HasPlaceholder(segments[n])
            /\ (Len(names) = 0 <=> template.kind = "StringLiteral")
            /\ (template.kind = "StringLiteral" => template.text = path)
            /\ (template.kind = "TemplateExpression" =>
                   \A n \in 1..Len(template.spans) :
                       /\ template.spans[n].object = "params"
                       /\ template.spans[n].isLast = (n = Len(template.spans)))

\* Two adjacent placeholders, the first at the start and the last at the end:
\* three zero-length literals.
C1_Witness ==
    /\ pc = "pathBuilt"
    /\ path = <<"{", "a", "}", "{", "b", "}">>
    /\ template.kind = "TemplateExpression"
    /\ template.head = <<>>
    /\ Len(template.spans) = 2
    /\ template.spans[1].literal = <<>> /\ template.spans[2].literal = <<>>

\* C7: no path parameter: the first input has only the optional search field;
\* otherwise it also has a required params field whose keys are exactly the
\* extracted names, each a string, so every params.<name> of the template is declared.
C7_ParamsShape ==
    pc = "pathBuilt" =>
        LET names == extractParams(path)
            keys  == {inputType.paramKeys[n] : n \in 1..Len(inputType.paramKeys)}
        IN  /\ inputType.search = "optional string"
            /\ inputType.hasParams = (Len(names) >= 1)
            /\ inputType.hasParams =>
                   /\ ~inputType.paramsOptional
                   /\ inputType.paramValue = "string"
                   /\ keys = {names[n] : n \in 1..Len(names)}
                   /\ \A n \in 1..Len(TemplateNames(template)) : TemplateNames(template)[n] \in keys
            /\ ~inputType.hasParams => inputType.paramKeys = <<>>

C7_Witness ==
    /\ pc = "pathBuilt"
    /\ path = <<"/", "{", "a", "}", "b">>
    /\ inputType.hasParams
    /\ inputType.paramKeys = << <<"a">> >>

(***************************************************************************)
(* Base URL argument of the emitted new URL(template, base)                *)
(***************************************************************************)
MaxUrlLen == 5

\* Characters of base-URL strings: letters, the dot that separates the segments
\* of a property path, and the colon that ends a URL scheme.
UrlLetters == {"a", "b"}
UrlChars == UrlLetters \cup {".", ":"}
BaseUrls ==
    {[given |-> FALSE, str |-> <<>>]} \cup
    {[given |-> TRUE, str |-> s] : s \in SeqsUpTo(UrlChars, MaxUrlLen)}

\* isValidURL(str): new URL(str) without a base succeeds exactly when str starts
\* with a scheme: a letter, then letters, digits, "+", "-" or ".", then ":".
\* What follows the colon of a non-special scheme is an opaque path, which the
\* URL parser accepts whatever it is.
isValidURL(str) ==
    /\ Len(str) >= 1
    /\ str[1] \in UrlLetters
    /\ \E i \in 2..Len(str) :
           /\ str[i] = ":"
           /\ \A k \in 2..(i - 1) : str[k] \in UrlLetters \cup {"."}

\* value.split('.'): the pieces between the dots, empty pieces kept.
RECURSIVE SplitDots(_, _)
SplitDots(str, piece) ==
    IF str = <<>> THEN <<piece>>
    ELSE IF Head(str) = "." THEN <<piece>> \o SplitDots(Tail(str), <<>>)
    ELSE SplitDots(Tail(str), Append(piece, Head(str)))

Identifier(text) == [kind |-> "Identifier", text |-> text]
PropertyAccess(expression, name) ==
    [kind |-> "PropertyAccess", expression |-> expression, name |-> name]

\* The loop of makeDynamicBaseUrl: expression = access(expression, parts[i]), i = from..
RECURSIVE AccessLoop(_, _, _)
AccessLoop(expression, parts, i) ==
    IF i > Len(parts) THEN expression
    ELSE AccessLoop(PropertyAccess(expression, parts[i]), parts, i + 1)

\* A slip: the chain is nested from the right (a.(b.c) read as c.b.a).
RECURSIVE AccessLoopReversed(_, _)
AccessLoopReversed(parts, i) ==
    IF i = 1 THEN Identifier(parts[Len(parts)])
    ELSE PropertyAccess(AccessLoopReversed(parts, i - 1), parts[Len(parts) - i + 1])

makeDynamicBaseUrlReversed(value) ==
    LET parts == SplitDots(value, <<>>)
    IN  AccessLoopReversed(parts, Len(parts))

\* makeDynamicBaseUrl(value)
makeDynamicBaseUrl(value) ==
    LET parts == SplitDots(value, <<>>)
    IN  IF Len(parts) = 1 THEN Identifier(parts[1])
        ELSE AccessLoop(PropertyAccess(Identifier(parts[1]), parts[2]), parts, 3)

\* makeOperationFunction: config.baseUrl ? (isValidURL ? literal : dynamic) : undefined.
\* A string is truthy unless it is empty.
makeBaseArgument(b) ==
    IF b.given /\ b.str # <<>>
    THEN IF isValidURL(b.str)
         THEN [kind |-> "StringLiteral", text |-> b.str]
         ELSE makeDynamicBaseUrl(b.str)
    ELSE Identifier(<<"undefined">>)

InitBase ==
    /\ pc = "base"
    /\ baseUrl \in BaseUrls
    /\ baseExpr = Undefined
    /\ PathIdle /\ MergeIdle /\ CallIdle /\ TypeIdle /\ ReturnIdle /\ ExecIdle

\* makeOperationFunction(config), as far as config.baseUrl decides it.
BuildBase ==
    /\ pc = "base"
    /\ baseExpr' = makeBaseArgument(baseUrl)
    /\ pc' = "baseBuilt"
    /\ UNCHANGED <<baseUrl, pathVars, mergeVars, callVars, typeVars, returnVars, execVars>>

NextBase == BuildBase
SpecBase == InitBase /\ [][NextBase]_vars

\* The segments of a member-access chain, read left to right; <<>> for any other node.
RECURSIVE ChainSegments(_)
ChainSegments(e) ==
    IF e.kind = "Identifier" THEN <<e.text>>
    ELSE IF e.kind = "PropertyAccess" THEN ChainSegments(e.expression) \o <<e.name>>
    ELSE <<>>

RECURSIVE ChainDepth(_)
ChainDepth(e) == IF e.kind = "PropertyAccess" THEN 1 + ChainDepth(e.expression) ELSE 0

RECURSIVE JoinDots(_)
JoinDots(segs) ==
    IF Len(segs) = 1 THEN segs[1] ELSE segs[1] \o <<".">> \o JoinDots(Tail(segs))

Dots(str) == Cardinality({i \in 1..Len(str) : str[i] = "."})

IsChainOf(e, str) ==
    /\ e.kind \in {"Identifier", "PropertyAccess"}
    /\ ChainDepth(e) = Dots(str)
    /\ Len(ChainSegments(e)) = Dots(str) + 1
    /\ JoinDots(ChainSegments(e)) = str
    /\ \A n \in 1..Len(ChainSegments(e)) : Dots(ChainSegments(e)[n]) = 0

IsUndefinedSentinel(e) == e = Identifier(<<"undefined">>)

\* C10 as stated: a supplied string that parses as an absolute URL is emitted as
\* that literal, any other supplied string as a member-access chain with one
\* level per dot-separated segment in order, and no base URL as undefined.
C10_AsStated ==
    pc = "baseBuilt" =>
        /\ (baseUrl.given /\ isValidURL(baseUrl.str)) =>
               baseExpr = [kind |-> "StringLiteral", text |-> baseUrl.str]
        /\ (baseUrl.given /\ ~isValidURL(baseUrl.str)) => IsChainOf(baseExpr, baseUrl.str)
        /\ ~baseUrl.given => IsUndefinedSentinel(baseExpr)

\* C10, amended: as stated for a supplied non-empty string; a supplied empty
\* string is emitted as undefined, like no base URL at all.
C10_BaseArgument ==
    pc = "baseBuilt" =>
        /\ (baseUrl.given /\ baseUrl.str # <<>> /\ isValidURL(baseUrl.str)) =>
               baseExpr = [kind |-> "StringLiteral", text |-> baseUrl.str]
        /\ (baseUrl.given /\ baseUrl.str # <<>> /\ ~isValidURL(baseUrl.str)) =>
               IsChainOf(baseExpr, baseUrl.str)
        /\ (~baseUrl.given \/ baseUrl.str = <<>>) => IsUndefinedSentinel(baseExpr)

\* a.b.a is no URL: the chain (a.b).a, two nested accesses on an identifier.
C10_Witness ==
    /\ pc = "baseBuilt"
    /\ baseUrl = [given |-> TRUE, str |-> <<"a", ".", "b", ".", "a">>]
    /\ baseExpr = PropertyAccess(PropertyAccess(Identifier(<<"a">>), <<"b">>), <<"a">>)

(***************************************************************************)
(* Header Merge Helper: the emitted combineHeaders(defaultHeaders, headers) *)
(*                                                                         *)
(* A HeadersInit value is one of                                            *)
(*   [kind |-> "Headers", list |-> f]    f: lower-case name -> combined value*)
(*   [kind |-> "Array",  entries |-> s]  s: sequence of [key, value]         *)
(*   [kind |-> "Object", entries |-> s]  s: Object.entries order, keys distinct*)
(*   Undefined                                                             *)
(* A header value is a sequence of atoms: the values the Headers class joins *)
(* with ", " when a name is appended twice.                                  *)
(***************************************************************************)
MaxDefaults == 2
MaxOverrides == 2

HeaderNames == {"Accept", "accept", "X-Extra"}
HeaderAtoms == {"v1", "v2"}

\* Header names are matched case-insensitively: the Headers class stores them
\* in lower case.
Lower(name) ==
    CASE name = "Accept" -> "accept"
      [] name = "Content-Type" -> "content-type"
      [] name = "X-Extra" -> "x-extra"
      [] OTHER -> name

EmptyList == [n \in {} |-> <<>>]

\* Headers.prototype.append: a second value for a name is joined to the first.
HeaderListAppend(list, name, value) ==
    LET n == Lower(name)
    IN  IF n \in DOMAIN list
        THEN [list EXCEPT ![n] = list[n] \o value]
        ELSE [m \in DOMAIN list \cup {n} |-> IF m = n THEN value ELSE list[m]]

\* Headers.prototype.set: the value replaces whatever the name had.
HeaderListSet(list, name, value) ==
    LET n == Lower(name)
    IN  [m \in DOMAIN list \cup {n} |-> IF m = n THEN value ELSE list[m]]

\* The names of a Headers object in the order its iterator yields them (sorted).
SortedNames == <<"accept", "content-type", "x-extra">>

\* The key/value pairs a HeadersInit value yields when iterated:
\* Headers.forEach / Array.forEach / Object.entries(...).forEach.
EntriesOf(init) ==
    IF init.kind = "Headers"
    THEN LET present == SelectSeq(SortedNames, LAMBDA n : n \in DOMAIN init.list)
         IN  [i \in 1..Len(present) |-> [key |-> present[i], value |-> init.list[present[i]]]]
    ELSE init.entries

RECURSIVE AppendAll(_, _)
AppendAll(list, entries) ==
    IF entries = <<>> THEN list
    ELSE AppendAll(HeaderListAppend(list, Head(entries).key, Head(entries).value), Tail(entries))

RECURSIVE SetAll(_, _)
SetAll(list, entries) ==
    IF entries = <<>> THEN list
    ELSE SetAll(HeaderListSet(list, Head(entries).key, Head(entries).value), Tail(entries))

\* new Headers(init): every pair of init is appended to an empty list.
NewHeaders(init) ==
    [kind |-> "Headers",
     list |-> IF init.kind = "undefined" THEN EmptyList ELSE AppendAll(EmptyList, EntriesOf(init))]

\* A slip: override entries are appended to the defaults instead of set.
combineHeadersAppend(defaults, overrides) ==
    LET combined == NewHeaders(defaults)
    IN  IF overrides.kind = "undefined" THEN combined
        ELSE [combined EXCEPT !.list = AppendAll(@, EntriesOf(overrides))]

\* combineHeaders(defaultHeaders, headers)
combineHeaders(defaults, overrides) ==
    LET combined == NewHeaders(defaults)
    IN  IF overrides.kind = "undefined" THEN combined
        ELSE IF overrides.kind = "Headers"
             THEN [combined EXCEPT !.list = SetAll(@, EntriesOf(overrides))]
        ELSE IF overrides.kind = "Array"
             THEN [combined EXCEPT !.list = SetAll(@, overrides.entries)]
        ELSE [combined EXCEPT !.list = SetAll(@, overrides.entries)]

HeaderEntries ==
    {[key |-> k, value |-> <<v>>] : k \in HeaderNames, v \in HeaderAtoms}

DistinctKeys(s) == \A i, j \in 1..Len(s) : i # j => s[i].key # s[j].key

\* The HeadersInit values built from at most n name/value pairs.
HeadersInits(n) ==
    LET lists == SeqsUpTo(HeaderEntries, n)
    IN  {[kind |-> "Array", entries |-> s] : s \in lists}
        \cup {[kind |-> "Object", entries |-> s] : s \in {t \in lists : DistinctKeys(t)}}
        \cup {NewHeaders([kind |-> "Array", entries |-> s]) : s \in lists}

InitMerge ==
    /\ pc = "merge"
    /\ defaultHeaders \in HeadersInits(MaxDefaults)
    /\ headers \in HeadersInits(MaxOverrides) \cup {Undefined}
    /\ combinedHeaders = Undefined
    /\ PathIdle /\ BaseIdle /\ CallIdle /\ TypeIdle /\ ReturnIdle /\ ExecIdle

\* A call of the emitted combineHeaders.
CallCombineHeaders ==
    /\ pc = "merge"
    /\ combinedHeaders' = combineHeaders(defaultHeaders, headers)
    /\ pc' = "merged"
    /\ UNCHANGED <<defaultHeaders, headers, pathVars, baseVars, callVars, typeVars, returnVars, execVars>>

NextMerge == CallCombineHeaders
SpecMerge == InitMerge /\ [][NextMerge]_vars

LowerNames == {Lower(n) : n \in HeaderNames}

\* The entries of init whose name is n, case ignored, in order.
EntriesNamed(init, n) ==
    IF init.kind = "undefined" THEN <<>>
    ELSE SelectSeq(EntriesOf(init), LAMBDA e : Lower(e.key) = n)

\* The value the Headers class holds for n after reading init: the values of
\* n's entries joined in order.
JoinedValue(init, n) ==
    Flatten([i \in 1..Len(EntriesNamed(init, n)) |-> EntriesNamed(init, n)[i].value])

\* C3: whatever the shape of the overrides, each name (case ignored) has the
\* value of its last override entry if there is one and its default value
\* otherwise; no overriding name and no other default name is missing, nothing
\* else is present; without overrides the result is the defaults.
C3_MergePrecedence ==
    pc = "merged" =>
        /\ combinedHeaders.kind = "Headers"
        /\ \A n \in LowerNames :
               LET over == EntriesNamed(headers, n)
                   dflt == EntriesNamed(defaultHeaders, n)
               IN  IF over # <<>>
                   THEN n \in DOMAIN combinedHeaders.list
                        /\ combinedHeaders.list[n] = over[Len(over)].value
                   ELSE IF dflt # <<>>
                   THEN n \in DOMAIN combinedHeaders.list
                        /\ combinedHeaders.list[n] = JoinedValue(defaultHeaders, n)
                   ELSE n \notin DOMAIN combinedHeaders.list
        /\ DOMAIN combinedHeaders.list \subseteq LowerNames
        /\ headers = Undefined =>
               \A n \in DOMAIN combinedHeaders.list :
                   combinedHeaders.list[n] = JoinedValue(defaultHeaders, n)

\* merge({Accept: v1}, {accept: v2, "X-Extra": v1}) as a plain mapping: the
\* override wins on Accept and X-Extra is added.
C3_Witness ==
    /\ pc = "merged"
    /\ defaultHeaders = [kind |-> "Object", entries |-> <<[key |-> "Accept", value |-> <<"v1">>]>>]
    /\ headers = [kind |-> "Object",
                  entries |-> <<[key |-> "accept", value |-> <<"v2">>],
                                [key |-> "X-Extra", value |-> <<"v1">>]>>]
    /\ combinedHeaders.list["accept"] = <<"v2">>
    /\ combinedHeaders.list["x-extra"] = <<"v1">>

(***************************************************************************)
(* The callable unit emitted by makeOperationFunction, when it is called:    *)
(*   return fetch(url, { method: M,                                          *)
(*                       headers: combineHeaders({defaults}, requestInit.headers),*)
(*                       ...requestInit })                                  *)
(* A JavaScript object is a function from its own keys to values; the value  *)
(* of an option other than headers is [kind |-> "string", text |-> ...].     *)
(***************************************************************************)
Methods == {"GET", "POST", "PUT", "PATCH", "DELETE"}

\* methodHasBody(method)
methodHasBody(m) == m \in {"POST", "PUT", "PATCH"}

Str(text) == [kind |-> "string", text |-> text]

\* makeOperationFunction: the object literal of default headers.
DefaultHeadersFor(m) ==
    [kind |-> "Object",
     entries |->
        IF methodHasBody(m)
        THEN <<[key |-> "Accept", value |-> <<"application/json">>],
               [key |-> "Content-Type", value |-> <<"application/json">>]>>
        ELSE <<[key |-> "Accept", value |-> <<"application/json">>]>>]

\* obj.key: undefined when obj has no such key.
Get(obj, key) == IF key \in DOMAIN obj THEN obj[key] ELSE Undefined

\* { ...target, key: value }: a later definition of a key replaces an earlier one.
Define(target, key, value) ==
    [k \in DOMAIN target \cup {key} |-> IF k = key THEN value ELSE target[k]]

\* { ...target, ...source }
Spread(target, source) ==
    [k \in DOMAIN target \cup DOMAIN source |-> IF k \in DOMAIN source THEN source[k] ELSE target[k]]

EmptyObject == [k \in {} |-> Undefined]

\* The second argument of the emitted fetch call: the properties are defined
\* in the order the literal lists them: method, headers, then the spread.
FetchOptions(m, init) ==
    Spread(
        Define(
            Define(EmptyObject, "method", Str(m)),
            "headers", combineHeaders(DefaultHeadersFor(m), Get(init, "headers"))),
        init)

\* The requestInit values a caller can pass (Omit<RequestInit, 'method'>):
\* any subset of headers, credentials and body; headers in any HeadersInit shape.
RequestInits ==
    {[k \in ks |-> IF k = "headers" THEN h ELSE IF k = "credentials" THEN Str("include") ELSE Str("b")] :
        ks \in SUBSET {"headers", "credentials", "body"},
        h \in HeadersInits(MaxOverrides) \cup {Undefined}}

InitCall ==
    /\ pc = "call"
    /\ method \in Methods
    /\ requestInit \in RequestInits
    /\ fetchInit = Undefined
    /\ PathIdle /\ BaseIdle /\ MergeIdle /\ TypeIdle /\ ReturnIdle /\ ExecIdle

\* A call of the emitted function, up to its fetch call.
CallOperation ==
    /\ pc = "call"
    /\ fetchInit' = FetchOptions(method, requestInit)
    /\ pc' = "fetched"
    /\ UNCHANGED <<method, requestInit, pathVars, baseVars, mergeVars, typeVars, returnVars, execVars>>

NextCall == CallOperation
SpecCall == InitCall /\ [][NextCall]_vars

\* C2: the options that reach fetch have the operation's method, headers equal
\* to the merge of the method's defaults with the caller's headers, and every
\* other caller option unchanged.
C2_MergedHeadersReachFetch ==
    pc = "fetched" =>
        /\ fetchInit["method"] = Str(method)
        /\ fetchInit["headers"] =
               combineHeaders(DefaultHeadersFor(method), Get(requestInit, "headers"))
        /\ \A k \in DOMAIN requestInit \ {"headers"} : fetchInit[k] = requestInit[k]
        /\ DOMAIN fetchInit = {"method", "headers"} \cup DOMAIN requestInit

(***************************************************************************)
(* Type Mapper: makeTypeFromSchema                                         *)
(*                                                                         *)
(* A value of the dereferenced document is one of                           *)
(*   [kind |-> "null"]   [kind |-> "number"]   [kind |-> "string", text |-> t]*)
(*   [kind |-> "array", elems |-> s]                                         *)
(*   [kind |-> "object", keys |-> s, vals |-> s]   keys in own-property order*)
(***************************************************************************)
MaxProps == 2
MaxParts == 2

JNull == [kind |-> "null"]
JNum  == [kind |-> "number"]
JArr(elems) == [kind |-> "array", elems |-> elems]
JObj(keys, vals) == [kind |-> "object", keys |-> keys, vals |-> vals]

\* typeof v === 'object' && v !== null
IsObjectLike(v) == v.kind \in {"object", "array"}

\* Array.isArray(v)
IsArray(v) == v.kind = "array"

IndexOf(s, x) == CHOOSE i \in 1..Len(s) : s[i] = x

\* key in v, for the keys the generator asks about (none of them an array index)
Has(v, key) == v.kind = "object" /\ \E i \in 1..Len(v.keys) : v.keys[i] = key

\* v[key], for a key v has
Val(v, key) == v.vals[IndexOf(v.keys, key)]

\* The array index i (from 0) as a property name.
IndexKey(i) == <<"0", "1", "2", "3">>[i + 1]

\* Object.getOwnPropertyNames(v) of an object or an array
OwnPropertyNames(v) ==
    IF v.kind = "array" THEN [i \in 1..Len(v.elems) |-> IndexKey(i - 1)] \o <<"length">>
    ELSE v.keys

\* v[name] for an own property name of an object or an array
OwnProperty(v, name) ==
    IF v.kind = "array"
    THEN IF name = "length" THEN JNum ELSE v.elems[IndexOf([i \in 1..Len(v.elems) |-> IndexKey(i - 1)], name)]
    ELSE Val(v, name)

\* Object.entries(v): the own enumerable properties of an object, the indexed
\* elements of an array, the characters of a string (strings that occur as
\* allOf parts have one character), nothing for a number.  Object.entries(null)
\* throws a TypeError: see Throws.
ObjectEntries(v) ==
    IF v.kind = "object" THEN [i \in 1..Len(v.keys) |-> [key |-> v.keys[i], val |-> v.vals[i]]]
    ELSE IF v.kind = "array" THEN [i \in 1..Len(v.elems) |-> [key |-> IndexKey(i - 1), val |-> v.elems[i]]]
    ELSE IF v.kind = "string" THEN <<[key |-> "0", val |-> v]>>
    ELSE <<>>

\* Object.fromEntries(entries): a later entry replaces the value of an earlier
\* entry with the same key.
RECURSIVE FromEntries(_, _)
FromEntries(obj, entries) ==
    IF entries = <<>> THEN obj
    ELSE LET e == Head(entries)
         IN  FromEntries(
                 IF Has(obj, e.key)
                 THEN JObj(obj.keys, [obj.vals EXCEPT ![IndexOf(obj.keys, e.key)] = e.val])
                 ELSE JObj(Append(obj.keys, e.key), Append(obj.vals, e.val)),
                 Tail(entries))

\* A slip: the first part to declare a key keeps it.
RECURSIVE FromEntriesFirstWins(_, _)
FromEntriesFirstWins(obj, entries) ==
    IF entries = <<>> THEN obj
    ELSE LET e == Head(entries)
         IN  FromEntriesFirstWins(
                 IF Has(obj, e.key) THEN obj
                 ELSE JObj(Append(obj.keys, e.key), Append(obj.vals, e.val)),
                 Tail(entries))

\* The nodes makeTypeFromSchema builds.
Keyword(k) == [kind |-> "Keyword", keyword |-> k]
UnknownType == Keyword("unknown")
ArrayType(element) == [kind |-> "ArrayType", element |-> element]
RecordType == [kind |-> "TypeReference", name |-> "Record",
               typeArguments |-> <<[kind |-> "UnionType", types |-> <<Keyword("string"), Keyword("number")>>],
                                   UnknownType>>]
TypeLiteral(members) == [kind |-> "TypeLiteral", members |-> members]

\* The outcome of a call that threw instead of returning a node.
Thrown == [kind |-> "Thrown", error |-> "TypeError"]

\* A slip: a property is required as soon as the node has a required list.
questionTokenAnyRequired(node, propertyName) ==
    ~(Has(node, "required") /\ IsArray(Val(node, "required")))

\* questionToken: TRUE when the property signature gets the "?" token.
questionToken(node, propertyName) ==
    ~(/\ Has(node, "required")
      /\ IsArray(Val(node, "required"))
      /\ \E i \in 1..Len(Val(node, "required").elems) :
             Val(node, "required").elems[i] = [kind |-> "string", text |-> propertyName])

\* schema.allOf.map((schema) => Object.entries(schema)).flat()
AllOfEntries(parts) == Flatten([i \in 1..Len(parts) |-> ObjectEntries(parts[i])])

RECURSIVE makeTypeFromSchema(_)
makeTypeFromSchema(node) ==
    IF IsObjectLike(node) /\ Has(node, "properties") /\ IsObjectLike(Val(node, "properties"))
    THEN LET properties == Val(node, "properties")
             names      == OwnPropertyNames(properties)
             members    == [i \in 1..Len(names) |->
                               [name     |-> names[i],
                                optional |-> questionToken(node, names[i]),
                                type     |-> makeTypeFromSchema(OwnProperty(properties, names[i]))]]
         IN  IF \E i \in 1..Len(members) : members[i].type = Thrown
             THEN Thrown
             ELSE TypeLiteral(members)
    ELSE IF IsObjectLike(node) /\ Has(node, "type")
    THEN LET type == Val(node, "type")
         IN  IF type = [kind |-> "string", text |-> "object"] THEN RecordType
             ELSE IF type = [kind |-> "string", text |-> "array"]
             THEN IF Has(node, "items") /\ IsObjectLike(Val(node, "items"))
                  THEN LET element == makeTypeFromSchema(Val(node, "items"))
                       IN  IF element = Thrown THEN Thrown ELSE ArrayType(element)
                  ELSE ArrayType(UnknownType)
             ELSE IF type \in {[kind |-> "string", text |-> "integer"], [kind |-> "string", text |-> "number"]}
             THEN Keyword("number")
             ELSE IF type = [kind |-> "string", text |-> "string"] THEN Keyword("string")
             ELSE IF type = [kind |-> "string", text |-> "boolean"] THEN Keyword("boolean")
             ELSE UnknownType
    ELSE IF IsObjectLike(node) /\ Has(node, "allOf") /\ IsArray(Val(node, "allOf"))
    THEN LET parts == Val(node, "allOf").elems
         IN  IF \E i \in 1..Len(parts) : parts[i].kind = "null"
             THEN Thrown
             ELSE makeTypeFromSchema(FromEntries(JObj(<<>>, <<>>), AllOfEntries(parts)))
    ELSE UnknownType

\* The schemas the call makeTypeFromSchema(node) hands to console.warn, in the
\* order of the calls: one for each time the fallback at the end of the
\* function is reached, in the call itself or in a call it makes.  A throw
\* ends the call: the properties after the one that threw are not mapped.
RECURSIVE warnedSchemas(_)
warnedSchemas(node) ==
    IF IsObjectLike(node) /\ Has(node, "properties") /\ IsObjectLike(Val(node, "properties"))
    THEN LET properties == Val(node, "properties")
             names      == OwnPropertyNames(properties)
             threw      == {i \in 1..Len(names) :
                               makeTypeFromSchema(OwnProperty(properties, names[i])) = Thrown}
             mapped     == IF threw = {} THEN Len(names)
                           ELSE CHOOSE i \in threw : \A j \in threw : i <= j
         IN  Flatten([i \in 1..mapped |-> warnedSchemas(OwnProperty(properties, names[i]))])
    ELSE IF IsObjectLike(node) /\ Has(node, "type")
    THEN LET type == Val(node, "type")
         IN  IF type = [kind |-> "string", text |-> "object"] THEN <<>>
             ELSE IF type = [kind |-> "string", text |-> "array"]
             THEN IF Has(node, "items") /\ IsObjectLike(Val(node, "items"))
                  THEN warnedSchemas(Val(node, "items"))
                  ELSE <<>>
             ELSE IF type \in {[kind |-> "string", text |-> t] : t \in {"integer", "number", "string", "boolean"}}
             THEN <<>>
             ELSE <<node>>
    ELSE IF IsObjectLike(node) /\ Has(node, "allOf") /\ IsArray(Val(node, "allOf"))
    THEN LET parts == Val(node, "allOf").elems
         IN  IF \E i \in 1..Len(parts) : parts[i].kind = "null"
             THEN <<>>
             ELSE warnedSchemas(FromEntries(JObj(<<>>, <<>>), AllOfEntries(parts)))
    ELSE <<node>>

\* Schema nodes the mapper is applied to.
TypeNames == {"string", "number", "integer", "boolean", "object", "array", "foo"}
PropertyNames == {"a", "b", "c"}

TypeOnly(t) == JObj(<<"type">>, <<Str(t)>>)
PropsOnly(keys, vals) == JObj(<<"properties">>, <<JObj(keys, vals)>>)
AllOfOnly(parts) == JObj(<<"allOf">>, <<JArr(parts)>>)
StrList(names) == JArr([i \in 1..Len(names) |-> Str(names[i])])

\* {type: ..} nodes and values that are no schema object at all.
LeafSchemas ==
    {TypeOnly(t) : t \in TypeNames}
    \cup {JObj(<<>>, <<>>), JNull, JNum, Str("x"), JArr(<<>>)}

\* Schemas of single properties: a primitive, null, an array, a nested object
\* and an allOf with a null part.
PropertySchemas ==
    {TypeOnly("string"), JNull,
     JObj(<<"type", "items">>, <<Str("array"), TypeOnly("string")>>),
     JObj(<<"properties", "required">>, <<JObj(<<"a">>, <<TypeOnly("boolean")>>), StrList(<<"a">>)>>),
     AllOfOnly(<<JNull>>)}

DistinctSeqs(S, n) == {s \in SeqsUpTo(S, n) : \A i, j \in 1..Len(s) : i # j => s[i] # s[j]}

\* properties: up to MaxProps distinct names, in any order, each with a schema.
PropertyMaps ==
    UNION {{JObj(keys, vals) : vals \in [1..Len(keys) -> PropertySchemas]} :
              keys \in DistinctSeqs(PropertyNames, MaxProps)}

\* required: absent (no key), a list of names, or a value that is no list.
RequiredValues ==
    {StrList(names) : names \in {<<>>, <<"a">>, <<"b">>, <<"c">>, <<"a", "b">>, <<"b", "a">>, <<"c", "a">>}}
    \cup {Str("a")}

\* Nodes that declare properties, with or without required and type.
ObjectSchemas ==
    UNION {{JObj(<<"properties">>, <<p>>)}
           \cup {JObj(<<"properties", "required">>, <<p, r>>) : r \in RequiredValues}
           \cup {JObj(<<"type", "properties">>, <<Str(t), p>>) : t \in {"object", "string"}}
           : p \in PropertyMaps}

\* Nodes whose properties value is no mapping.
OddPropertiesSchemas ==
    {JObj(<<"properties">>, <<v>>) : v \in {JNull, Str("x"), JArr(<<TypeOnly("string")>>)}}
    \cup {JObj(<<"type", "properties">>, <<Str("string"), JNull>>)}

ArraySchemas ==
    {JObj(<<"type", "items">>, <<Str("array"), v>>) : v \in LeafSchemas \cup PropertySchemas}

\* Parts of an allOf: objects with and without properties, an allOf, and
\* values of the other shapes.
PartSchemas ==
    {JObj(<<"properties", "required">>, <<JObj(<<"a">>, <<TypeOnly("string")>>), StrList(<<"a">>)>>),
     PropsOnly(<<"b">>, <<TypeOnly("integer")>>),
     JObj(<<"required">>, <<StrList(<<"b">>)>>),
     TypeOnly("string"),
     AllOfOnly(<<PropsOnly(<<"a">>, <<TypeOnly("number")>>)>>),
     JObj(<<>>, <<>>), JNull, JNum, Str("x"), JArr(<<TypeOnly("string")>>)}

AllOfSchemas ==
    UNION {{AllOfOnly(parts),
            JObj(<<"type", "allOf">>, <<Str("foo"), JArr(parts)>>),
            JObj(<<"allOf", "type">>, <<JArr(parts), Str("string")>>)}
           : parts \in SeqsUpTo(PartSchemas, MaxParts)}
    \cup {JObj(<<"allOf">>, <<Str("x")>>)}

Schemas == LeafSchemas \cup ObjectSchemas \cup OddPropertiesSchemas \cup ArraySchemas \cup AllOfSchemas

InitType ==
    /\ pc = "type"
    /\ schema \in Schemas
    /\ typeNode = Undefined
    /\ warnings = <<>>
    /\ callStack = <<>>
    /\ PathIdle /\ BaseIdle /\ MergeIdle /\ CallIdle /\ ReturnIdle /\ ExecIdle

\* A call makeTypeFromSchema(schema).
MapSchema ==
    /\ pc = "type"
    /\ typeNode' = makeTypeFromSchema(schema)
    /\ warnings' = warnedSchemas(schema)
    /\ pc' = "typed"
    /\ UNCHANGED <<schema, callStack, pathVars, baseVars, mergeVars, callVars, returnVars, execVars>>

NextType == MapSchema
SpecType == InitType /\ [][NextType]_vars

\* C4: makeTypeFromSchema is total: whatever the schema value, the call returns
\* a type node and never throws.
C4_MapperNeverThrows ==
    pc = "typed" => typeNode # Thrown

\* The node declares properties: its properties value is a mapping.
DeclaresProperties(node) ==
    node.kind = "object" /\ Has(node, "properties") /\ Val(node, "properties").kind = "object"

\* name is in the node's required list (no list: no name is).
InRequired(node, name) ==
    /\ Has(node, "required")
    /\ Val(node, "required").kind = "array"
    /\ \E i \in 1..Len(Val(node, "required").elems) : Val(node, "required").elems[i] = Str(name)

StructMatches(node, struct) ==
    /\ struct.kind = "TypeLiteral"
    /\ Len(struct.members) = Len(Val(node, "properties").keys)
    /\ \A i \in 1..Len(struct.members) :
           /\ struct.members[i].name = Val(node, "properties").keys[i]
           /\ struct.members[i].optional = ~InRequired(node, struct.members[i].name)

\* C5: a node that declares properties is mapped to a Struct with one field
\* per declared property, in order, and a field is optional exactly when its
\* name is not in the node's required list.
C5_StructPerProperties ==
    (pc = "typed" /\ DeclaresProperties(schema)) => StructMatches(schema, typeNode)

\* The same for the calls that return: whenever the mapper returns a node for
\* a schema that declares properties, the node is the Struct of C5.
C5_StructWhenReturned ==
    (pc = "typed" /\ DeclaresProperties(schema) /\ typeNode # Thrown) =>
        StructMatches(schema, typeNode)

(***************************************************************************)
(* Return type of a callable unit: makeOperationFunctionReturnType          *)
(***************************************************************************)
MaxResponses == 2

\* isJSONResponse(response)
isJSONResponse(response) ==
    /\ IsObjectLike(response)
    /\ Has(response, "content")
    /\ IsObjectLike(Val(response, "content"))
    /\ Has(Val(response, "content"), "application/json")
    /\ IsObjectLike(Val(Val(response, "content"), "application/json"))
    /\ Has(Val(Val(response, "content"), "application/json"), "schema")
    /\ IsObjectLike(Val(Val(Val(response, "content"), "application/json"), "schema"))

JsonSchemaOf(response) == Val(Val(Val(response, "content"), "application/json"), "schema")

UnionType(types) == [kind |-> "UnionType", types |-> types]
TypeReference(name, typeArguments) ==
    [kind |-> "TypeReference", name |-> name, typeArguments |-> typeArguments]

\* makeOperationFunctionReturnType(responses); Object.values(undefined) throws.
makeOperationFunctionReturnType(resps) ==
    IF resps.kind \in {"undefined", "null"} THEN Thrown
    ELSE LET values        == [i \in 1..Len(ObjectEntries(resps)) |-> ObjectEntries(resps)[i].val]
             jsonResponses == SelectSeq(values, isJSONResponse)
             types         == [i \in 1..Len(jsonResponses) |->
                                  makeTypeFromSchema(JsonSchemaOf(jsonResponses[i]))]
         IN  IF \E i \in 1..Len(types) : types[i] = Thrown
             THEN Thrown
             ELSE TypeReference("Promise", <<TypeReference("TypedResponse", <<UnionType(types)>>)>>)

MediaType(name, body) == JObj(<<"content">>, <<JObj(<<name>>, <<body>>)>>)
WithSchema(s) == JObj(<<"schema">>, <<s>>)

\* Schemas of response bodies: primitives, a struct, an array, an unrecognized
\* node and an allOf with a null part.
BodySchemas ==
    {TypeOnly("string"), TypeOnly("integer"),
     JObj(<<"properties", "required">>,
          <<JObj(<<"a", "b">>, <<TypeOnly("string"), TypeOnly("boolean")>>), StrList(<<"a">>)>>),
     JObj(<<"type", "items">>, <<Str("array"), TypeOnly("number")>>),
     JObj(<<>>, <<>>),
     AllOfOnly(<<JNull>>)}

\* Response entries: with a JSON body, with another media type only, with a
\* JSON media type that has no schema or a null one, and without content.
ResponseValues ==
    {MediaType("application/json", WithSchema(s)) : s \in BodySchemas}
    \cup {MediaType("text/plain", WithSchema(TypeOnly("string"))),
          JObj(<<"content">>,
               <<JObj(<<"text/plain", "application/json">>,
                      <<WithSchema(TypeOnly("string")), WithSchema(TypeOnly("boolean"))>>)>>),
          MediaType("application/json", JObj(<<>>, <<>>)),
          MediaType("application/json", WithSchema(JNull)),
          JObj(<<"description">>, <<Str("x")>>)}

\* The keys of a responses object in own-property order: status codes are
\* integer keys, which come first in ascending order, then "default".
ResponseKeys == <<"200", "404", "default">>

IsSubsequenceOf(s, full) ==
    \E f \in [1..Len(s) -> 1..Len(full)] :
        /\ \A i \in 1..Len(s) : s[i] = full[f[i]]
        /\ \A i, j \in 1..Len(s) : i < j => f[i] < f[j]

ResponsesObjects ==
    UNION {{JObj(keys, vals) : vals \in [1..Len(keys) -> ResponseValues]} :
              keys \in {k \in SeqsUpTo({"200", "404", "default"}, MaxResponses) :
                           IsSubsequenceOf(k, ResponseKeys)}}

InitReturn ==
    /\ pc = "return"
    /\ responses \in ResponsesObjects
    /\ returnType = Undefined
    /\ PathIdle /\ BaseIdle /\ MergeIdle /\ CallIdle /\ TypeIdle /\ ExecIdle

\* A call makeOperationFunctionReturnType(config.responses).
MakeReturnType ==
    /\ pc = "return"
    /\ returnType' = makeOperationFunctionReturnType(responses)
    /\ pc' = "returned"
    /\ UNCHANGED <<responses, pathVars, baseVars, mergeVars, callVars, typeVars, execVars>>

NextReturn == MakeReturnType
SpecReturn == InitReturn /\ [][NextReturn]_vars

\* The response carries an application/json media type with a schema.
CarriesJsonSchema(response) ==
    /\ response.kind = "object"
    /\ \E i \in 1..Len(response.keys) :
           /\ response.keys[i] = "content"
           /\ response.vals[i].kind = "object"
           /\ \E j \in 1..Len(response.vals[i].keys) :
                  /\ response.vals[i].keys[j] = "application/json"
                  /\ response.vals[i].vals[j].kind = "object"
                  /\ \E k \in 1..Len(response.vals[i].vals[j].keys) :
                         /\ response.vals[i].vals[j].keys[k] = "schema"
                         /\ response.vals[i].vals[j].vals[k].kind \in {"object", "array"}

\* The union the claim describes: map(schema) of the entries with a JSON
\* body, in entry order.
ExpectedUnion(resps) ==
    LET picked == SelectSeq(resps.vals, CarriesJsonSchema)
    IN  UnionType([i \in 1..Len(picked) |-> makeTypeFromSchema(JsonSchemaOf(picked[i]))])

IsPromiseOfTypedResponseOf(node, union) ==
    /\ node.kind = "TypeReference" /\ node.name = "Promise"
    /\ Len(node.typeArguments) = 1
    /\ node.typeArguments[1].kind = "TypeReference"
    /\ node.typeArguments[1].name = "TypedResponse"
    /\ node.typeArguments[1].typeArguments = <<union>>

\* C8: the return type is Promise<TypedResponse<U>>, U the union in entry
\* order of map(schema) over exactly the entries with a JSON body; no such
\* entry gives a union without members.
C8_ReturnTypeUnion ==
    pc = "returned" => IsPromiseOfTypedResponseOf(returnType, ExpectedUnion(responses))

\* The same for the calls that return a node.
C8_UnionWhenReturned ==
    (pc = "returned" /\ returnType # Thrown) =>
        IsPromiseOfTypedResponseOf(returnType, ExpectedUnion(responses))

(***************************************************************************)
(* The run: execute(args)                                                  *)
(*                                                                         *)
(* paths is a sequence of [path, item]: the keys of inputDocument.paths in   *)
(* own-property order, each with its path item; item is a sequence of        *)
(* [method, operation]: the keys of the path item in order, each with the    *)
(* value found under it.                                                   *)
(***************************************************************************)
MaxOps == 3

\* The characters of the strings whose characters the generator looks at.
Chars(str) ==
    CASE str = "/b/{id}" -> <<"/", "b", "/", "{", "i", "d", "}">>
      [] str = "/a"      -> <<"/", "a">>
      [] str = "/{a}{b}" -> <<"/", "{", "a", "}", "{", "b", "}">>
      [] str = "/c"      -> <<"/", "c">>
      [] str = "/d"      -> <<"/", "d">>
      [] str = "a:b"     -> <<"a", ":", "b">>
      [] str = "a.b"     -> <<"a", ".", "b">>
      [] OTHER           -> <<>>

\* method.toUpperCase()
ToUpperCase(str) ==
    CASE str = "get" -> "GET" [] str = "post" -> "POST" [] str = "put" -> "PUT"
      [] str = "patch" -> "PATCH" [] str = "delete" -> "DELETE"
      [] str = "head" -> "HEAD" [] str = "options" -> "OPTIONS"
      [] str = "parameters" -> "PARAMETERS" [] str = "summary" -> "SUMMARY"
      [] OTHER -> str

\* The keys the documents use, in the order they are declared: paths, and
\* the keys of a path item, which besides methods are the fields a path item
\* holds for all its operations (parameters, summary).
PathKeys == <<"/b/{id}", "/a", "/{a}{b}", "/c", "/d">>
MethodKeys == <<"post", "get", "parameters", "summary", "patch">>

JsonResponses ==
    JObj(<<"200", "404">>,
         <<MediaType("application/json", WithSchema(TypeOnly("string"))),
           JObj(<<"description">>, <<Str("x")>>)>>)

\* What can stand under a key of a path item: an operation with an
\* operationId (with and without summary and description, empty or not, and
\* one without responses), an operation without operationId, an array and a
\* string.
OperationValues ==
    {JObj(<<"operationId", "responses">>, <<Str("op"), JsonResponses>>),
     JObj(<<"operationId", "summary", "responses">>, <<Str("op"), Str("s"), JsonResponses>>),
     JObj(<<"operationId", "description", "responses">>, <<Str("op"), Str("d"), JsonResponses>>),
     JObj(<<"operationId", "summary", "description", "responses">>,
          <<Str("op"), Str("s"), Str("d"), JsonResponses>>),
     JObj(<<"operationId", "summary", "responses">>, <<Str("op"), Str(""), JsonResponses>>),
     JObj(<<"operationId">>, <<Str("op")>>),
     JObj(<<"summary", "responses">>, <<Str("s"), JsonResponses>>),
     JArr(<<>>),
     Str("x")}

\* The documents with n operation entries: every way to cut a sequence of n
\* entries into path items.
RECURSIVE PathItemsFrom(_, _, _)
PathItemsFrom(ops, cuts, p) ==
    IF ops = <<>> THEN <<>>
    ELSE LET inside == {c \in cuts : c < Len(ops)}
             n    == IF inside # {}
                     THEN (CHOOSE c \in inside : \A d \in inside : c <= d)
                     ELSE Len(ops)
             item == [j \in 1..n |-> [method |-> MethodKeys[j], operation |-> ops[j]]]
         IN  <<[path |-> PathKeys[p], item |-> item]>>
             \o PathItemsFrom(SubSeq(ops, n + 1, Len(ops)), {c - n : c \in cuts \ {n}}, p + 1)

Documents ==
    {PathItemsFrom(ops, cuts, 1) :
        ops \in SeqsUpTo(OperationValues, MaxOps), cuts \in SUBSET (1..(MaxOps - 1))}

\* The argument lists of the command.
ArgLists ==
    {<<"--input", "in.json", "--output", "out.ts", "--base-url", "a.b">>,
     <<"--output", "out.ts">>,
     <<"--input", "in.json", "--output">>,
     <<"--input", "in.json", "--output", "out.ts", "--base-url">>}

\* getOptions: parsedArgs[flag], undefined (here "") when the flag is not given.
RECURSIVE ParsedArg(_, _, _)
ParsedArg(list, flag, i) ==
    IF i > Len(list) THEN [given |-> FALSE, str |-> ""]
    ELSE LET later == ParsedArg(list, flag, i + 2)
         IN  IF later.given THEN later
             ELSE IF list[i] = flag /\ i + 1 <= Len(list)
                  THEN [given |-> TRUE, str |-> list[i + 1]]
             ELSE later

\* getOptions(args) for an argument list of even length
getOptions(list) ==
    [input   |-> ParsedArg(list, "--input", 1),
     output  |-> ParsedArg(list, "--output", 1),
     baseUrl |-> ParsedArg(list, "--base-url", 1)]

\* A slip: only the keys that hold an object are taken for operations; a list
\* or a string under a key of the path item is passed over.
EntriesObjectsOnly(doc) ==
    Flatten([p \in 1..Len(doc) |->
                SelectSeq([m \in 1..Len(doc[p].item) |->
                              [path |-> doc[p].path, method |-> doc[p].item[m].method,
                               operation |-> doc[p].item[m].operation]],
                          LAMBDA entry : entry.operation.kind = "object")])

\* The entries of the document in the order the nested map visits them.
Entries(doc) ==
    Flatten([p \in 1..Len(doc) |->
                [m \in 1..Len(doc[p].item) |->
                    [path |-> doc[p].path, method |-> doc[p].item[m].method,
                     operation |-> doc[p].item[m].operation]]])

\* A slip: an entry without operationId is let through instead of rejected.
operationErrorIgnoreMissingId(operation) ==
    IF IsArray(operation) THEN "Operation is an array"
    ELSE IF operation.kind = "string" THEN "Operation is a string"
    ELSE ""

\* The checks of the walker on one entry: the message of the error thrown,
\* "" when the entry passes.  ('operationId' in operation throws a TypeError
\* for a value that is no object.)
operationError(operation) ==
    IF IsArray(operation) THEN "Operation is an array"
    ELSE IF operation.kind = "string" THEN "Operation is a string"
    ELSE IF operation.kind # "object" THEN "TypeError"
    ELSE IF ~Has(operation, "operationId") THEN "No operationId"
    ELSE ""

\* { path, method: method.toUpperCase(), ...operation }
operationConfig(entry) ==
    FromEntries(JObj(<<>>, <<>>),
                <<[key |-> "path", val |-> Str(entry.path)],
                  [key |-> "method", val |-> Str(ToUpperCase(entry.method))]>>
                \o ObjectEntries(entry.operation))

\* if (config.summary): the key is there and its string is not empty.
Truthy(config, key) == Has(config, key) /\ Val(config, key) # Str("")

\* The tags of the documentation block of a config, <<>> when it gets none.
jsDocNodes(config) ==
    (IF Truthy(config, "summary") THEN <<[tag |-> "@summary", text |-> Val(config, "summary").text]>> ELSE <<>>)
    \o (IF Truthy(config, "description")
        THEN <<[tag |-> "@description", text |-> Val(config, "description").text]>> ELSE <<>>)

\* config.key: undefined when the config has no such key
Field(config, key) == IF Has(config, key) THEN Val(config, key) ELSE Undefined

\* makeOperationFunction({ baseUrl: options.baseUrl, ...config })
makeOperationFunction(config, base) ==
    LET returns == makeOperationFunctionReturnType(Field(config, "responses"))
    IN  IF returns = Thrown THEN Thrown
        ELSE [kind           |-> "FunctionDeclaration",
              name           |-> Field(config, "operationId"),
              path           |-> Val(config, "path").text,
              method         |-> Val(config, "method").text,
              firstParameter |-> makeFirstParameterType(extractParams(Chars(Val(config, "path").text))),
              returnType     |-> returns,
              url            |-> [template |-> makeTemplateExpressionFromPath(Chars(Val(config, "path").text)),
                                  base     |-> makeBaseArgument([given |-> base.given, str |-> Chars(base.str)])],
              defaultHeaders |-> DefaultHeadersFor(Val(config, "method").text)]

makeTypedResponseType == [kind |-> "TypeAliasDeclaration", name |-> "TypedResponse"]
makeCombineHeadersFunction == [kind |-> "HelperDeclaration", name |-> "combineHeaders"]

\* A slip: the documentation block is pushed after the function.
operationNodesDocLast(config, base) ==
    <<makeOperationFunction(config, base)>>
    \o (IF jsDocNodes(config) # <<>> THEN <<[kind |-> "JSDoc", tags |-> jsDocNodes(config)]>> ELSE <<>>)

\* The nodes one config contributes: the documentation block, if any, then
\* the function.
operationNodes(config, base) ==
    (IF jsDocNodes(config) # <<>> THEN <<[kind |-> "JSDoc", tags |-> jsDocNodes(config)]>> ELSE <<>>)
    \o <<makeOperationFunction(config, base)>>

InitExec ==
    /\ pc = "start"
    /\ args \in ArgLists
    /\ paths = <<>> /\ operationConfigs = <<>> /\ statements = <<>>
    /\ dirCreated = FALSE /\ fileWritten = FALSE /\ error = ""
    /\ stderr = "" /\ exitCode = -1
    /\ PathIdle /\ BaseIdle /\ MergeIdle /\ CallIdle /\ TypeIdle /\ ReturnIdle

Rest == <<pathVars, baseVars, mergeVars, callVars, typeVars, returnVars, stderr, exitCode>>

\* A slip: the test of the number of arguments is left out.
getOptionsErrorNoLengthCheck(list) ==
    IF ~getOptions(list).input.given \/ ~getOptions(list).output.given
    THEN "TypeError"
    ELSE ""

\* What the first three lines of execute throw, "" when nothing: getOptions
\* rejects an odd number of arguments; then resolve(process.cwd(), options.input)
\* and resolve(process.cwd(), options.output) throw a TypeError for a flag
\* that was not given.
getOptionsError(list) ==
    IF Len(list) % 2 # 0 THEN "Invalid number of arguments"
    ELSE IF ~getOptions(list).input.given \/ ~getOptions(list).output.given
    THEN "TypeError"
    ELSE ""

\* const options = getOptions(args) and the two resolve calls
GetOptions ==
    /\ pc = "start"
    /\ IF getOptionsError(args) # ""
       THEN pc' = "rejected" /\ error' = getOptionsError(args)
       ELSE pc' = "load" /\ error' = error
    /\ UNCHANGED <<args, paths, operationConfigs, statements, dirCreated, fileWritten, Rest>>

\* await SwaggerParser.dereference(inputPath), then the test of
\* inputDocument.paths: the document read has paths or not.
LoadDocument ==
    /\ pc = "load"
    /\ \/ \E doc \in Documents : paths' = doc /\ pc' = "walk" /\ error' = error
       \/ paths' = paths /\ pc' = "rejected" /\ error' = "No paths"
    /\ UNCHANGED <<args, operationConfigs, statements, dirCreated, fileWritten, Rest>>

\* SwaggerParser.dereference rejects: the input cannot be read or resolved.
LoadFails ==
    /\ pc = "load"
    /\ pc' = "rejected" /\ error' = "dereference"
    /\ UNCHANGED <<args, paths, operationConfigs, statements, dirCreated, fileWritten, Rest>>

\* One step of the nested map over paths and methods: the next entry is
\* checked and its config collected, or the run is rejected.
WalkOperation ==
    /\ pc = "walk"
    /\ Len(operationConfigs) < Len(Entries(paths))
    /\ LET entry == Entries(paths)[Len(operationConfigs) + 1]
       IN  IF operationError(entry.operation) # ""
           THEN /\ pc' = "rejected" /\ error' = operationError(entry.operation)
                /\ operationConfigs' = operationConfigs
           ELSE /\ pc' = pc /\ error' = error
                /\ operationConfigs' = Append(operationConfigs, operationConfig(entry))
    /\ UNCHANGED <<args, paths, statements, dirCreated, fileWritten, Rest>>

\* Every entry is collected: the statement list starts with TypedResponse
\* and the header helper.
WalkDone ==
    /\ pc = "walk"
    /\ Len(operationConfigs) = Len(Entries(paths))
    /\ statements' = <<makeTypedResponseType, makeCombineHeadersFunction>>
    /\ pc' = "emit"
    /\ UNCHANGED <<args, paths, operationConfigs, dirCreated, fileWritten, error, Rest>>

FunctionCount(nodes) == Len(SelectSeq(nodes, LAMBDA n : n.kind = "FunctionDeclaration"))

\* One step of operationConfigs.map: the nodes of the next config are added,
\* or the run is rejected because building its function threw.
EmitOperation ==
    /\ pc = "emit"
    /\ FunctionCount(statements) < Len(operationConfigs)
    /\ LET config == operationConfigs[FunctionCount(statements) + 1]
           nodes  == operationNodes(config, getOptions(args).baseUrl)
       IN  IF \E i \in 1..Len(nodes) : nodes[i] = Thrown
           THEN pc' = "rejected" /\ error' = "TypeError" /\ statements' = statements
           ELSE pc' = pc /\ error' = error /\ statements' = statements \o nodes
    /\ UNCHANGED <<args, paths, operationConfigs, dirCreated, fileWritten, Rest>>

\* printer.printFile(resultFile); await mkdir(dirname(outputPath), { recursive: true })
MakeDirectory ==
    /\ pc = "emit"
    /\ FunctionCount(statements) = Len(operationConfigs)
    /\ dirCreated' = TRUE
    /\ pc' = "write"
    /\ UNCHANGED <<args, paths, operationConfigs, statements, fileWritten, error, Rest>>

\* await writeFile(outputPath, result)
WriteFile ==
    /\ pc = "write"
    /\ fileWritten' = TRUE
    /\ pc' = "done"
    /\ UNCHANGED <<args, paths, operationConfigs, statements, dirCreated, error, Rest>>

\* cli: main(...).catch: the rejection of execute is printed with
\* console.error and the process exits with status 1.
CatchError ==
    /\ pc = "rejected"
    /\ exitCode = -1
    /\ stderr' = error
    /\ exitCode' = 1
    /\ UNCHANGED <<pc, args, paths, operationConfigs, statements, dirCreated, fileWritten, error,
                   pathVars, baseVars, mergeVars, callVars, typeVars, returnVars>>

\* cli: execute has resolved, main returns and the process ends with status 0.
MainReturns ==
    /\ pc = "done"
    /\ exitCode = -1
    /\ exitCode' = 0
    /\ UNCHANGED <<pc, args, paths, operationConfigs, statements, dirCreated, fileWritten, error,
                   stderr, pathVars, baseVars, mergeVars, callVars, typeVars, returnVars>>

NextExec ==
    \/ GetOptions \/ LoadDocument \/ LoadFails \/ WalkOperation \/ WalkDone
    \/ EmitOperation \/ MakeDirectory \/ WriteFile \/ CatchError \/ MainReturns
SpecExec == InitExec /\ [][NextExec]_vars

\* C12: a run whose argument list has odd length never gets past getOptions:
\* no document is loaded, no directory made, no file written; it is rejected
\* with "Invalid number of arguments", and when the process has ended it has
\* printed that error and its status is 1, never 0; until then the handler
\* that prints and exits is the step that is due.  And for every run: a
\* status other than 0 is only ever the end of a run that was rejected with
\* an error, and a run that reached its end exits with 0 or not yet at all.
C12_OddArgumentsFatal ==
    /\ Len(args) % 2 # 0 =>
          /\ pc \in {"start", "rejected"}
          /\ paths = <<>> /\ operationConfigs = <<>> /\ statements = <<>>
          /\ ~dirCreated /\ ~fileWritten
          /\ pc = "rejected" => error = "Invalid number of arguments"
          /\ exitCode \in {-1, 1}
          /\ exitCode = 1 => pc = "rejected" /\ stderr = "Invalid number of arguments"
          /\ (pc = "rejected" /\ exitCode = -1) => ENABLED CatchError
    /\ exitCode \notin {-1, 0} => pc = "rejected" /\ error # "" /\ stderr = error
    /\ pc = "done" => error = "" /\ stderr = "" /\ exitCode \in {-1, 0}

\* An odd argument list whose flags are all there: the process has exited
\* with status 1 after printing the error.
C12_Witness ==
    /\ args = <<"--input", "in.json", "--output", "out.ts", "--base-url">>
    /\ pc = "rejected"
    /\ exitCode = 1
    /\ stderr = "Invalid number of arguments"
    /\ paths = <<>> /\ ~dirCreated /\ ~fileWritten

\* A run that raised no error: the process has ended with status 0.
C12_CleanExit == pc = "done" /\ fileWritten /\ exitCode = 0

\* The entry is one the walker must reject: an array, a bare string, or an
\* operation without operationId.
Offending(operation) ==
    \/ operation.kind = "array"
    \/ operation.kind = "string"
    \/ (operation.kind = "object" /\ \A i \in 1..Len(operation.keys) : operation.keys[i] # "operationId")

OffendingIndexes(doc) == {i \in 1..Len(Entries(doc)) : Offending(Entries(doc)[i].operation)}

\* C6: when some entry of the document is an array, a string or lacks
\* operationId, the run never gets past the walk: it is rejected there, the
\* output directory is never created and the file never written, however many
\* valid entries come first; no config is ever made for the offending entry.
C6_MalformedAbortsBeforeOutput ==
    OffendingIndexes(paths) # {} =>
        /\ pc \in {"walk", "rejected"}
        /\ ~dirCreated /\ ~fileWritten
        /\ statements = <<>>
        /\ \A i \in OffendingIndexes(paths) : Len(operationConfigs) < i
        /\ (pc = "walk" /\ (Len(operationConfigs) + 1) \in OffendingIndexes(paths)) =>
               operationError(Entries(paths)[Len(operationConfigs) + 1].operation) # ""
        /\ pc = "rejected" =>
               error \in {"Operation is an array", "Operation is a string", "No operationId"}

\* Two valid operations, then one without operationId: rejected, nothing written.
C6_Witness ==
    /\ pc = "rejected"
    /\ error = "No operationId"
    /\ Len(operationConfigs) = 2
    /\ Len(Entries(paths)) = 3
    /\ ~dirCreated /\ ~fileWritten

\* What a statement is, as far as the order of the output goes.
StatementShape(node) ==
    IF node.kind = "FunctionDeclaration"
    THEN [kind |-> "function", path |-> node.path, method |-> node.method]
    ELSE [kind |-> node.kind, path |-> "", method |-> ""]

HasKey(operation, key) == \E i \in 1..Len(operation.keys) : operation.keys[i] = key

NonEmpty(operation, key) ==
    \E i \in 1..Len(operation.keys) :
        operation.keys[i] = key /\ operation.vals[i].kind = "string" /\ operation.vals[i].text # ""

\* The output the claim describes: TypedResponse, the helper, then per entry
\* in document order a documentation block, when documented(operation), and
\* the entry's function.
ExpectedShapes(doc, documented(_)) ==
    <<[kind |-> "TypeAliasDeclaration", path |-> "", method |-> ""],
      [kind |-> "HelperDeclaration", path |-> "", method |-> ""]>>
    \o Flatten([i \in 1..Len(Entries(doc)) |->
                   (IF documented(Entries(doc)[i].operation)
                    THEN <<[kind |-> "JSDoc", path |-> "", method |-> ""]>> ELSE <<>>)
                   \o <<[kind |-> "function", path |-> Entries(doc)[i].path,
                         method |-> ToUpperCase(Entries(doc)[i].method)]>>])

HasSummaryOrDescription(operation) == HasKey(operation, "summary") \/ HasKey(operation, "description")
HasNonEmptySummaryOrDescription(operation) ==
    NonEmpty(operation, "summary") \/ NonEmpty(operation, "description")

Shapes(nodes) == [i \in 1..Len(nodes) |-> StatementShape(nodes[i])]

\* C9 as stated: a completed run's output is TypedResponse, the helper, then
\* for each operation in document order a documentation block exactly when
\* the operation has a summary or a description, followed by its function.
C9_AsStated ==
    pc = "done" => Shapes(statements) = ExpectedShapes(paths, HasSummaryOrDescription)

\* C9, amended: the documentation block is there exactly when the summary or
\* the description is a non-empty string.
C9_OutputOrder ==
    pc = "done" => Shapes(statements) = ExpectedShapes(paths, HasNonEmptySummaryOrDescription)

\* Two paths, three operations, the first documented and the last not.
C9_Witness ==
    /\ pc = "done"
    /\ Len(paths) = 2
    /\ Len(statements) = 6
    /\ statements[3].kind = "JSDoc"
    /\ statements[4].kind = "FunctionDeclaration" /\ statements[4].path = "/b/{id}"
    /\ statements[5].kind = "FunctionDeclaration" /\ statements[5].path = "/b/{id}"
    /\ statements[5].method = "GET"
    /\ statements[6].kind = "FunctionDeclaration" /\ statements[6].path = "/a"

(***************************************************************************)
(* One entry of the document, from the walker's config to its function     *)
(***************************************************************************)
\* The keys a path item can hold an operation under.
SynthMethodKeys == {"get", "post", "put", "patch", "delete", "head", "options"}

\* Operations with an operationId: plain, documented, without responses, and
\* operations that carry a key named method or path of their own.
SynthOperations ==
    {JObj(<<"operationId", "responses">>, <<Str("op"), JsonResponses>>),
     JObj(<<"operationId", "summary", "responses">>, <<Str("op"), Str("s"), JsonResponses>>),
     JObj(<<"operationId">>, <<Str("op")>>),
     JObj(<<"operationId", "method", "responses">>, <<Str("op"), Str("GET"), JsonResponses>>),
     JObj(<<"operationId", "method", "responses">>, <<Str("op"), Str("POST"), JsonResponses>>),
     JObj(<<"operationId", "path", "responses">>, <<Str("op"), Str("/a"), JsonResponses>>)}

SynthPathKeys == {PathKeys[i] : i \in 1..Len(PathKeys)}

InitSynth ==
    /\ pc = "config"
    /\ args = <<"--input", "in.json", "--output", "out.ts">>
    /\ \E p \in SynthPathKeys, m \in SynthMethodKeys, o \in SynthOperations :
           paths = <<[path |-> p, item |-> <<[method |-> m, operation |-> o]>>]>>
    /\ operationConfigs = <<>> /\ statements = <<>>
    /\ dirCreated = FALSE /\ fileWritten = FALSE /\ error = ""
    /\ stderr = "" /\ exitCode = -1
    /\ PathIdle /\ BaseIdle /\ MergeIdle /\ CallIdle /\ TypeIdle /\ ReturnIdle

\* The entry's config is made and its nodes are built from the config, or
\* building the function throws.
SynthesizeOperation ==
    /\ pc = "config"
    /\ LET config == operationConfig(Entries(paths)[1])
           nodes  == operationNodes(config, getOptions(args).baseUrl)
       IN  /\ operationConfigs' = <<config>>
           /\ IF \E i \in 1..Len(nodes) : nodes[i] = Thrown
              THEN pc' = "rejected" /\ error' = "TypeError" /\ statements' = statements
              ELSE pc' = "synthesized" /\ error' = error /\ statements' = nodes
    /\ UNCHANGED <<args, paths, dirCreated, fileWritten, Rest>>

NextSynth == SynthesizeOperation
SpecSynth == InitSynth /\ [][NextSynth]_vars

\* The function among the nodes of the entry.
SynthesizedFunction == statements[Len(statements)]

\* The default header set the claim gives a method name.
BodiedDefaults(name) ==
    IF name \in {"POST", "PUT", "PATCH"}
    THEN <<[key |-> "Accept", value |-> <<"application/json">>],
           [key |-> "Content-Type", value |-> <<"application/json">>]>>
    ELSE <<[key |-> "Accept", value |-> <<"application/json">>]>>

UpperCaseOf(key) ==
    CASE key = "get" -> "GET" [] key = "post" -> "POST" [] key = "put" -> "PUT"
      [] key = "patch" -> "PATCH" [] key = "delete" -> "DELETE"
      [] key = "head" -> "HEAD" [] key = "options" -> "OPTIONS"

DocumentMethodKey == paths[1].item[1].method
DocumentOperation == paths[1].item[1].operation

\* C11: the default headers emitted into an operation's function are Accept
\* and Content-Type when the document's method key, in upper case, is POST,
\* PUT or PATCH, and Accept alone for every other method key.
C11_DefaultHeadersByMethodKey ==
    pc = "synthesized" =>
        SynthesizedFunction.defaultHeaders.entries = BodiedDefaults(UpperCaseOf(DocumentMethodKey))

\* What does hold: the claim's headers for every operation that has no key
\* named method of its own.
C11_DefaultHeadersWhenNotOverridden ==
    (pc = "synthesized" /\ ~HasKey(DocumentOperation, "method")) =>
        /\ SynthesizedFunction.method = UpperCaseOf(DocumentMethodKey)
        /\ SynthesizedFunction.defaultHeaders.entries = BodiedDefaults(UpperCaseOf(DocumentMethodKey))

\* An operation under the key post, with no method key of its own.
C11_PostWitness ==
    /\ pc = "synthesized"
    /\ DocumentMethodKey = "post"
    /\ ~HasKey(DocumentOperation, "method")
    /\ Len(SynthesizedFunction.defaultHeaders.entries) = 2

(***************************************************************************)
(* The mapper's rules, one by one                                          *)
(***************************************************************************)
RecognizedTypes == {"object", "array", "integer", "number", "string", "boolean"}

\* The node's type, "" when it has none or one that is no string.
TypeOf(node) ==
    IF node.kind = "object" /\ HasKey(node, "type") /\ Val(node, "type").kind = "string"
    THEN Val(node, "type").text
    ELSE ""

\* The node has an allOf list.
HasAllOfList(node) == node.kind = "object" /\ HasKey(node, "allOf") /\ Val(node, "allOf").kind = "array"

\* The key/value pairs of all parts, part after part (null has none).
PartPairs(parts) ==
    Flatten([i \in 1..Len(parts) |-> IF parts[i].kind = "null" THEN <<>> ELSE ObjectEntries(parts[i])])

\* The shallow merge of the parts: each key once, where it first occurs, with
\* the value of the last pair that has the key.
ShallowMerge(parts) ==
    LET pairs   == PartPairs(parts)
        firsts  == {i \in 1..Len(pairs) : \A j \in 1..(i - 1) : pairs[j].key # pairs[i].key}
        Nth(n)  == CHOOSE i \in firsts : Cardinality({j \in firsts : j < i}) = n - 1
        Last(k) == CHOOSE i \in 1..Len(pairs) :
                       pairs[i].key = k /\ \A j \in (i + 1)..Len(pairs) : pairs[j].key # k
    IN  JObj([n \in 1..Cardinality(firsts) |-> pairs[Nth(n)].key],
             [n \in 1..Cardinality(firsts) |-> pairs[Last(pairs[Nth(n)].key)].val])

\* C13: a node with an allOf list that declares no properties and whose type,
\* if it has one, is none of object, array, integer, number, string, boolean
\* is mapped to what the shallow merge of its parts is mapped to, a later
\* part's key replacing an earlier part's.
C13_AllOfMerge ==
    (/\ pc = "typed"
     /\ HasAllOfList(schema)
     /\ ~HasKey(schema, "properties")
     /\ TypeOf(schema) \notin RecognizedTypes) =>
        typeNode = makeTypeFromSchema(ShallowMerge(Val(schema, "allOf").elems))

\* What does hold: the merge rule for the nodes that have no type key at all
\* and no null among their parts.
C13_MergeWhenNoTypeKey ==
    (/\ pc = "typed"
     /\ HasAllOfList(schema)
     /\ ~HasKey(schema, "properties")
     /\ ~HasKey(schema, "type")
     /\ \A i \in 1..Len(Val(schema, "allOf").elems) : Val(schema, "allOf").elems[i].kind # "null") =>
        typeNode = makeTypeFromSchema(ShallowMerge(Val(schema, "allOf").elems))

\* Two parts that both declare properties: the fields are the later part's.
C13_LaterPartWins ==
    /\ pc = "typed"
    /\ schema = AllOfOnly(<<JObj(<<"properties", "required">>,
                                 <<JObj(<<"a">>, <<TypeOnly("string")>>), StrList(<<"a">>)>>),
                            PropsOnly(<<"b">>, <<TypeOnly("integer")>>)>>)
    /\ typeNode = TypeLiteral(<<[name |-> "b", optional |-> TRUE, type |-> Keyword("number")]>>)

\* A node with an unrecognized type and an allOf list is not merged.
C13_TypeKeyHidesAllOf ==
    /\ pc = "typed"
    /\ schema = JObj(<<"type", "allOf">>, <<Str("foo"), JArr(<<PropsOnly(<<"b">>, <<TypeOnly("integer")>>)>>)>>)
    /\ typeNode = UnknownType

\* The node has no properties to make a Struct of: no properties key, or one
\* whose value is no object.
WithoutProperties(node) ==
    node.kind = "object" /\ (HasKey(node, "properties") => ~IsObjectLike(Val(node, "properties")))

Dictionary == [kind |-> "TypeReference", name |-> "Record",
               typeArguments |-> <<[kind |-> "UnionType", types |-> <<Keyword("string"), Keyword("number")>>],
                                   Keyword("unknown")>>]

\* What the rules, taken in their order, make of a node, given the outcome
\* node of the call; TRUE for a node no rule of the claim speaks of.
FollowsPriorityOrder(node, outcome) ==
    IF DeclaresProperties(node) THEN outcome.kind = "TypeLiteral"
    ELSE IF ~WithoutProperties(node) THEN TRUE
    ELSE IF TypeOf(node) = "object" THEN outcome = Dictionary
    ELSE IF TypeOf(node) = "array"
    THEN IF HasKey(node, "items")
         THEN outcome = [kind |-> "ArrayType", element |-> makeTypeFromSchema(Val(node, "items"))]
         ELSE outcome = [kind |-> "ArrayType", element |-> Keyword("unknown")]
    ELSE IF TypeOf(node) \in {"integer", "number"} THEN outcome = Keyword("number")
    ELSE IF TypeOf(node) = "string" THEN outcome = Keyword("string")
    ELSE IF TypeOf(node) = "boolean" THEN outcome = Keyword("boolean")
    ELSE TRUE

\* C14: the mapper takes its rules in priority order: a node with properties
\* becomes a Struct whatever its type; otherwise type object becomes the
\* dictionary, type array an array of the mapped items (of Unknown without
\* items), integer and number the number primitive, string and boolean theirs.
C14_PriorityOrder ==
    pc = "typed" => FollowsPriorityOrder(schema, typeNode)

\* What does hold: the priority order for every call that returns.
C14_PriorityWhenReturned ==
    (pc = "typed" /\ typeNode # Thrown) => FollowsPriorityOrder(schema, typeNode)

\* A node of type string that declares properties is mapped to a Struct.
C14_PropertiesBeforeType ==
    /\ pc = "typed"
    /\ DeclaresProperties(schema)
    /\ TypeOf(schema) = "string"
    /\ typeNode.kind = "TypeLiteral"

\* An array whose items cannot be mapped: the call throws.
C14_ItemsThrow ==
    /\ pc = "typed"
    /\ TypeOf(schema) = "array"
    /\ HasKey(schema, "items")
    /\ typeNode = Thrown

\* The node has one of the shapes the rules name: it declares properties, or
\* its type is one of the six, or it has an allOf list.
RecognizedShape(node) ==
    /\ node.kind = "object"
    /\ (DeclaresProperties(node) \/ TypeOf(node) \in RecognizedTypes \/ HasAllOfList(node))

\* The schema is built only from objects with properties, arrays with items,
\* strings, numbers, integers and booleans.
RECURSIVE BuiltFromRecognized(_)
BuiltFromRecognized(node) ==
    /\ node.kind = "object"
    /\ IF DeclaresProperties(node)
       THEN \A i \in 1..Len(Val(node, "properties").vals) : BuiltFromRecognized(Val(node, "properties").vals[i])
       ELSE /\ ~HasKey(node, "properties")
            /\ \/ TypeOf(node) \in {"string", "number", "integer", "boolean"}
               \/ TypeOf(node) = "array" /\ HasKey(node, "items") /\ BuiltFromRecognized(Val(node, "items"))

\* Unknown occurs somewhere in the type.
RECURSIVE ContainsUnknown(_)
ContainsUnknown(type) ==
    \/ type = Keyword("unknown")
    \/ type.kind = "ArrayType" /\ ContainsUnknown(type.element)
    \/ type.kind = "TypeLiteral" /\ \E i \in 1..Len(type.members) : ContainsUnknown(type.members[i].type)
    \/ type.kind = "TypeReference" /\ \E i \in 1..Len(type.typeArguments) : ContainsUnknown(type.typeArguments[i])

\* The Unknown a call returns is paired with exactly one diagnostic, and a
\* schema built from the recognized shapes gets no Unknown and no diagnostic.
UnknownPairedWithDiagnostic ==
    /\ typeNode = Keyword("unknown") => Len(warnings) = 1
    /\ (typeNode = Keyword("unknown") /\ ~HasAllOfList(schema)) => warnings = <<schema>>
    /\ BuiltFromRecognized(schema) =>
           typeNode # Thrown /\ ~ContainsUnknown(typeNode) /\ warnings = <<>>

\* C15: the mapper falls back to Unknown only on a node that has none of the
\* recognized shapes, each Unknown it returns comes with exactly one
\* diagnostic for that node, and a schema built only from objects with
\* properties, arrays with items and the four primitives is mapped without
\* any Unknown and without any diagnostic.
C15_UnknownOnlyForUnrecognized ==
    pc = "typed" =>
        /\ \A i \in 1..Len(warnings) : ~RecognizedShape(warnings[i])
        /\ UnknownPairedWithDiagnostic

\* What does hold: the fallback is reached only on a node that has none of
\* the recognized shapes or has a type key whose value is none of the six.
C15_UnknownWhenNoRuleApplies ==
    pc = "typed" =>
        /\ \A i \in 1..Len(warnings) :
               \/ ~RecognizedShape(warnings[i])
               \/ (HasKey(warnings[i], "type") /\ TypeOf(warnings[i]) \notin RecognizedTypes)
        /\ UnknownPairedWithDiagnostic

\* A Struct of a string field and an array of strings: nothing unknown, no diagnostic.
C15_RecognizedOnly ==
    /\ pc = "typed"
    /\ BuiltFromRecognized(schema)
    /\ typeNode.kind = "TypeLiteral"
    /\ Len(typeNode.members) = 2
    /\ \E i \in 1..2 : typeNode.members[i].type.kind = "ArrayType"
    /\ warnings = <<>>

\* An unrecognized type: Unknown and one diagnostic for the node.
C15_FallbackWarns ==
    /\ pc = "typed"
    /\ schema = TypeOnly("foo")
    /\ typeNode = Keyword("unknown")
    /\ warnings = <<schema>>

(***************************************************************************)
(* The recursion of makeTypeFromSchema, call by call                       *)
(*                                                                         *)
(* callStack holds the arguments of the calls that are still to be made,   *)
(* the next one first: a call takes its argument off the stack and puts    *)
(* the arguments of the calls it makes itself in its place.                *)
(***************************************************************************)
\* A slip: the allOf branch calls the mapper on the node itself instead of
\* on the merge of its parts.
recursiveCallsUnmerged(node) ==
    IF IsObjectLike(node) /\ Has(node, "properties") /\ IsObjectLike(Val(node, "properties"))
    THEN LET properties == Val(node, "properties")
             names      == OwnPropertyNames(properties)
         IN  [i \in 1..Len(names) |-> OwnProperty(properties, names[i])]
    ELSE IF IsObjectLike(node) /\ Has(node, "type")
    THEN IF /\ Val(node, "type") = [kind |-> "string", text |-> "array"]
            /\ Has(node, "items") /\ IsObjectLike(Val(node, "items"))
         THEN <<Val(node, "items")>>
         ELSE <<>>
    ELSE IF IsObjectLike(node) /\ Has(node, "allOf") /\ IsArray(Val(node, "allOf"))
    THEN <<node>>
    ELSE <<>>

\* The arguments of the calls of makeTypeFromSchema that the call on node
\* makes itself, in order: the schema of each property, the items of an
\* array, the merge of the parts of an allOf.
recursiveCalls(node) ==
    IF IsObjectLike(node) /\ Has(node, "properties") /\ IsObjectLike(Val(node, "properties"))
    THEN LET properties == Val(node, "properties")
             names      == OwnPropertyNames(properties)
         IN  [i \in 1..Len(names) |-> OwnProperty(properties, names[i])]
    ELSE IF IsObjectLike(node) /\ Has(node, "type")
    THEN IF /\ Val(node, "type") = [kind |-> "string", text |-> "array"]
            /\ Has(node, "items") /\ IsObjectLike(Val(node, "items"))
         THEN <<Val(node, "items")>>
         ELSE <<>>
    ELSE IF IsObjectLike(node) /\ Has(node, "allOf") /\ IsArray(Val(node, "allOf"))
    THEN <<FromEntries(JObj(<<>>, <<>>), AllOfEntries(Val(node, "allOf").elems))>>
    ELSE <<>>

\* The call on node throws before it calls anything: Object.entries of a
\* null part of its allOf.
callThrows(node) ==
    /\ IsObjectLike(node)
    /\ ~(Has(node, "properties") /\ IsObjectLike(Val(node, "properties")))
    /\ ~Has(node, "type")
    /\ Has(node, "allOf") /\ IsArray(Val(node, "allOf"))
    /\ \E i \in 1..Len(Val(node, "allOf").elems) : Val(node, "allOf").elems[i].kind = "null"

\* The call on node ends at the fallback: console.warn and Unknown.
reachesFallback(node) ==
    IF ~IsObjectLike(node) THEN TRUE
    ELSE IF Has(node, "properties") /\ IsObjectLike(Val(node, "properties")) THEN FALSE
    ELSE IF Has(node, "type")
    THEN Val(node, "type") \notin
             {[kind |-> "string", text |-> t] : t \in {"object", "array", "integer", "number", "string", "boolean"}}
    ELSE ~(Has(node, "allOf") /\ IsArray(Val(node, "allOf")))

InitCalls ==
    /\ pc = "call"
    /\ schema \in Schemas
    /\ callStack = <<schema>>
    /\ typeNode = Undefined
    /\ warnings = <<>>
    /\ PathIdle /\ BaseIdle /\ MergeIdle /\ CallIdle /\ ReturnIdle /\ ExecIdle

\* The next call of makeTypeFromSchema is made.
EnterCall ==
    /\ pc = "call"
    /\ callStack # <<>>
    /\ LET node == Head(callStack)
       IN  IF callThrows(node)
           THEN /\ pc' = "thrown" /\ callStack' = <<>>
                /\ typeNode' = Thrown /\ warnings' = warnings
           ELSE /\ pc' = pc /\ callStack' = recursiveCalls(node) \o Tail(callStack)
                /\ typeNode' = typeNode
                /\ warnings' = IF reachesFallback(node) THEN Append(warnings, node) ELSE warnings
    /\ UNCHANGED <<schema, pathVars, baseVars, mergeVars, callVars, returnVars, execVars>>

\* No call is left: the outermost call returns its node.
ReturnNode ==
    /\ pc = "call"
    /\ callStack = <<>>
    /\ pc' = "finished"
    /\ typeNode' = makeTypeFromSchema(schema)
    /\ UNCHANGED <<schema, warnings, callStack, pathVars, baseVars, mergeVars, callVars, returnVars, execVars>>

NextCalls == EnterCall \/ ReturnNode
SpecCalls == InitCalls /\ [][NextCalls]_vars

\* How deep the values nest inside a value: 0 for null, a number or a string.
RECURSIVE Depth(_)
Depth(v) ==
    LET inner == IF v.kind = "object" THEN v.vals ELSE IF v.kind = "array" THEN v.elems ELSE <<>>
        depths == {Depth(inner[i]) : i \in 1..Len(inner)}
    IN  IF v.kind \notin {"object", "array"} THEN 0
        ELSE IF depths = {} THEN 1
        ELSE 1 + CHOOSE d \in depths : \A e \in depths : e <= d

\* Every call the next call makes is on a value that nests less deep than
\* its own argument.
CallsDescend ==
    callStack # <<>> =>
        \A i \in 1..Len(recursiveCalls(Head(callStack))) :
            Depth(recursiveCalls(Head(callStack))[i]) < Depth(Head(callStack))

\* A bound on the calls still to come: every value on the stack counts
\* RankBase to the power of its depth, and RankBase is more than the number
\* of calls one call can make.
RankBase == MaxProps + 2

RECURSIVE Rank(_)
Rank(stack) == IF stack = <<>> THEN 0 ELSE RankBase ^ Depth(Head(stack)) + Rank(Tail(stack))

\* A call leaves less to come than there was before it.
RankDecreases == (pc = "call" /\ callStack # <<>>) => Rank(callStack') < Rank(callStack)

\* C16: on every schema (all are finite trees) the recursion of the mapper
\* comes to an end: every recursive call (on a property's schema, on the
\* items of an array, on the merge of an allOf, also of an allOf inside an
\* allOf) is on a strictly smaller value, and each call made lowers a natural
\* number that bounds the calls still to come.
C16_RecursionTerminates ==
    /\ [](pc = "call" => CallsDescend)
    /\ [][RankDecreases]_vars

\* The calls, taken one by one, make the node and the diagnostics that the
\* function makes as a whole.
CallsAgreeWithMapper ==
    /\ pc = "finished" => typeNode # Thrown /\ warnings = warnedSchemas(schema)
    /\ pc = "thrown" => makeTypeFromSchema(schema) = Thrown /\ warnings = warnedSchemas(schema)

\* An allOf inside an allOf: the second merge is the call that is due.
C16_Witness ==
    /\ pc = "call"
    /\ schema = AllOfOnly(<<AllOfOnly(<<PropsOnly(<<"a">>, <<TypeOnly("number")>>)>>)>>)
    /\ callStack = <<PropsOnly(<<"a">>, <<TypeOnly("number")>>)>>

\* The number of keys over all path items of the document.
RECURSIVE TotalKeys(_)
TotalKeys(doc) == IF doc = <<>> THEN 0 ELSE Len(Head(doc).item) + TotalKeys(Tail(doc))

\* Some path item holds an array or a string under one of its keys.
HoldsListOrString(doc) ==
    \E p \in 1..Len(doc) : \E m \in 1..Len(doc[p].item) :
        doc[p].item[m].operation.kind \in {"array", "string"}

\* The functions among the statements, in order.
Functions(nodes) == SelectSeq(nodes, LAMBDA n : n.kind = "FunctionDeclaration")

\* C17: the walker takes every key of every path item for a method with an
\* operation under it: once the walk is over there is one config, and in a
\* completed run one function, for each key of each path item; and a document
\* in which a path item holds an array or a string under any key (a list of
\* parameters, a summary) never gets past the walk, whatever its operations
\* are: the run is rejected and nothing is written.
C17_EveryKeyIsAnOperation ==
    /\ pc \in {"emit", "write", "done"} => Len(operationConfigs) = TotalKeys(paths)
    /\ pc = "done" =>
          /\ Len(Functions(statements)) = TotalKeys(paths)
          /\ \A p \in 1..Len(paths) : \A m \in 1..Len(paths[p].item) :
                 \E i \in 1..Len(Functions(statements)) :
                     /\ Functions(statements)[i].path = paths[p].path
                     /\ Functions(statements)[i].method = ToUpperCase(paths[p].item[m].method)
    /\ HoldsListOrString(paths) =>
          /\ pc \in {"walk", "rejected"}
          /\ ~dirCreated /\ ~fileWritten /\ statements = <<>>
          /\ exitCode # 0

\* A path item with two well-formed operations and a parameters list: the
\* run is rejected at the list.
C17_Witness ==
    /\ pc = "rejected"
    /\ error = "Operation is an array"
    /\ Len(paths) = 1
    /\ Len(paths[1].item) = 3
    /\ paths[1].item[3].method = "parameters"
    /\ Len(operationConfigs) = 2
    /\ ~fileWritten

\* A completed run in which the key parameters holds an object with an
\* operationId: it has a function of its own.
C17_KeyTakenForMethod ==
    /\ pc = "done"
    /\ Len(paths) = 1
    /\ Len(paths[1].item) = 3
    /\ Len(Functions(statements)) = 3
    /\ Functions(statements)[3].method = "PARAMETERS"
====
